---- MODULE Spec2Model ----
(***************************************************************************)
(* State-machine model of the front-end's Session Store (AuthProvider,     *)
(* contexts/AuthContext.tsx), Shared Reference Cache (DataProvider,        *)
(* contexts/DataContext.tsx), login form and Record List Controllers (the  *)
(* Assets, Purchases, Transfers, Assignments and Expenditures pages).      *)
(*                                                                         *)
(* The program is single-threaded and event driven: every handler runs to  *)
(* its next `await` without interruption, and the continuation after an    *)
(* `await` runs when the response arrives.  Each action below is one such  *)
(* uninterrupted piece of a handler.  A React state update made by a piece *)
(* is visible in the state the piece produces; the effect that depends on  *)
(* the updated state runs as a later step (effectDue).                     *)
(***************************************************************************)
EXTENDS Naturals, Sequences, FiniteSets

VARIABLES
    lsToken,          \* localStorage['token'], None when the key is absent
    lsRefreshToken,   \* localStorage['refreshToken'], None when absent
    authHeader,       \* axios.defaults.headers.common['Authorization']
    user,             \* AuthProvider state `user` (null when unauthenticated)
    loading,          \* AuthProvider state `loading`
    checkAuthPc,      \* position of the startup effect checkAuth
    loginReqs,        \* POST /auth/login requests in flight
    formLoading,      \* Login state `loading` of the mounted form
    refreshReqs,      \* POST /auth/refresh requests in flight
    bases,            \* DataProvider state `bases`
    assetTypes,       \* DataProvider state `assetTypes`
    assets,           \* DataProvider state `assets`
    dataLoading,      \* DataProvider state `loading`
    dataError,        \* DataProvider state `error`
    effectDue,        \* a dependency of the DataProvider effect ([user, authLoading]) changed
    runs,             \* in-flight groups of reference fetches, in the order they were started
    ev,               \* history: the last step taken and what it was given / what it returned
    loggedOut,        \* history: logout() has completed and no login has succeeded since
    screen,           \* the record-list route the browser is on ("none": another route)
    mounted,          \* the Record List Controller of `screen` is mounted
    db,               \* the server's collection of the resource of `screen`
    records,          \* controller state: allAssets / allPurchases / transfers / ...
    total,            \* controller state `total` (server-paged lists)
    listLoading,      \* controller state `loading`
    listError,        \* controller state `error`
    page,             \* controller state `page`
    rowsPerPage,      \* controller state `rowsPerPage`
    filters,          \* controller state `filters`
    openDialog,       \* controller state `openDialog`
    editing,          \* controller state editingX: the id of the record, 0 for null
    expending,        \* Assignments state expendingAssignment: its id, 0 for null
    loads,            \* list requests (GET) of the controller in flight
    muts,             \* mutation requests (POST / PUT / DELETE) in flight
    refsPending,      \* reference fetches of the screen (bases, assets, personnel) in flight
    refsLoaded        \* reference collections of the screen that have arrived

authVars == <<lsToken, lsRefreshToken, authHeader, user, loading, checkAuthPc,
              loginReqs, formLoading, refreshReqs>>
dataVars == <<bases, assetTypes, assets, dataLoading, dataError, runs>>
listVars == <<screen, mounted, db, records, total, listLoading, listError, page,
              rowsPerPage, filters, openDialog, editing, expending, loads,
              muts, refsPending, refsLoaded>>
vars == <<lsToken, lsRefreshToken, authHeader, user, loading, checkAuthPc,
          loginReqs, formLoading, refreshReqs, bases, assetTypes, assets, dataLoading,
          dataError, effectDue, runs, ev, loggedOut, screen, mounted, db,
          records, total, listLoading, listError, page, rowsPerPage, filters, openDialog,
          editing, expending, loads, muts, refsPending, refsLoaded>>

----------------------------------------------------------------------------
(* Bounds and value sets *)

MaxLoginInFlight == 2
MaxRefreshInFlight == 1
MaxRuns == 2

None == "none"                 \* an absent localStorage key / header
null == "null"                 \* JavaScript null
Tokens == {"tA", "tB"}         \* opaque token strings the server may issue
Users == {"u1", "u2"}          \* user objects the server may return
Kinds == {"bases", "assetTypes", "assets"}
ServerRows == {<<>>, <<"r1">>} \* response.data.data of a list endpoint

\* `Bearer ${token}`
Bearer(t) == "Bearer " \o t

\* What a failed request carries: no response at all (transport failure), or
\* a response with an HTTP status whose body may hold an `error` string.
NoResponse == [hasResponse |-> FALSE, status |-> 0, error |-> None]
FailedResponses ==
    {NoResponse}
    \cup {[hasResponse |-> TRUE, status |-> s, error |-> e] :
             s \in {401, 500}, e \in {None, "", "Invalid credentials"}}

\* JavaScript truthiness of an optional string
Truthy(s) == s # None /\ s # ""

\* The history record of a step: the operation, how its promise settled, the
\* message of the error it threw, the failed response it was given (NoResponse
\* when it was given none), and the tokens and user it was about.
Event(op, result, message, given, tok, rt, usr) ==
    [op |-> op, result |-> result, message |-> message, given |-> given,
     tok |-> tok, rt |-> rt, usr |-> usr]
Step(op) == Event(op, "none", None, NoResponse, None, None, null)

----------------------------------------------------------------------------
(* Record List Controllers: values and pure functions *)

MaxRows == 12          \* longest collection the server holds
MaxPageSize == 10      \* largest page size the user selects
MaxInFlight == 1       \* requests of a Record List Controller in flight
MaxLoads == 2          \* the same, when a page change adds a list request

Targets == {1}         \* ids of the records whose row buttons the user presses
Screens == {"assets", "purchases", "transfers", "assignments", "expenditures"}
ServerPaged == {"transfers", "expenditures"}   \* paged and filtered by the server
ClientPaged == {"assets", "purchases", "assignments"}

\* User objects GET /auth/profile may return, with their role and base_id
Principals == {"admin", "cmdrB1", "logi"}
roleOf(u) ==
    CASE u = "admin" -> "admin"
      [] u = "cmdrB1" -> "base_commander"
      [] u = "logi" -> "logistics_officer"
      [] OTHER -> "undefined"
baseOf(u) ==
    CASE u \in {"cmdrB1", "logi"} -> "B1"
      [] OTHER -> "undefined"

\* useState(10) of rowsPerPage, ?limit=1000 of the client-paged lists, and
\* the rowsPerPageOptions of each TablePagination
DefaultRowsPerPage == 10
FetchAllLimit == 1000
RowsPerPageOptions(s) ==
    CASE s = "assets" -> {10, 25, 50, 100}
      [] s \in ServerPaged -> {5, 10, 25}
      [] OTHER -> {5, 10, 25, 50}
PageSizes(s) == {n \in RowsPerPageOptions(s) : n <= MaxPageSize}

\* A record of a list.  Strings the code searches in are sequences of
\* characters; dates are day numbers, 0 for the empty string.
Row(id, name, status, base, from, to, date) ==
    [id |-> id, name |-> name, status |-> status, base_id |-> base,
     from_base_id |-> from, to_base_id |-> to, asset_id |-> "a1",
     personnel_id |-> "p1", purchase_date |-> date]

\* useState of `filters`: every criterion empty
NoFilters ==
    [name |-> <<>>, base_id |-> "", from_base_id |-> "", status |-> "",
     asset_id |-> "", personnel_id |-> "", start_date |-> 0, end_date |-> 0]

\* String.prototype.toLowerCase and String.prototype.includes
toLowerCase(str) == [i \in DOMAIN str |-> IF str[i] = "M" THEN "m" ELSE str[i]]
includes(str, part) ==
    \E i \in 0..Len(str) :
        i + Len(part) <= Len(str) /\ SubSeq(str, i + 1, i + Len(part)) = part

\* The callback of allX.filter(...) of screen s under criteria f
Keeps_emptyMatchesNothing(s, f, r) ==
    CASE s = "assets" ->
           /\ includes(toLowerCase(r.name), toLowerCase(f.name))
           /\ r.base_id = f.base_id
           /\ r.status = f.status
      [] s = "purchases" ->
           /\ r.base_id = f.base_id
           /\ ~(f.start_date # 0 /\ r.purchase_date < f.start_date)
           /\ ~(f.end_date # 0 /\ r.purchase_date > f.end_date)
           /\ r.status = f.status
      [] OTHER ->
           /\ r.base_id = f.base_id
           /\ r.status = f.status
           /\ r.asset_id = f.asset_id
           /\ r.personnel_id = f.personnel_id
Keeps(s, f, r) ==
    CASE s = "assets" ->
           /\ ~(f.name # <<>> /\ ~includes(toLowerCase(r.name), toLowerCase(f.name)))
           /\ ~(f.base_id # "" /\ r.base_id # f.base_id)
           /\ ~(f.status # "" /\ r.status # f.status)
      [] s = "purchases" ->
           /\ ~(f.base_id # "" /\ r.base_id # f.base_id)
           /\ ~(f.start_date # 0 /\ r.purchase_date < f.start_date)
           /\ ~(f.end_date # 0 /\ r.purchase_date > f.end_date)
           /\ ~(f.status # "" /\ r.status # f.status)
      [] OTHER ->
           /\ ~(f.base_id # "" /\ r.base_id # f.base_id)
           /\ ~(f.status # "" /\ r.status # f.status)
           /\ ~(f.asset_id # "" /\ r.asset_id # f.asset_id)
           /\ ~(f.personnel_id # "" /\ r.personnel_id # f.personnel_id)

\* filteredAssets / filteredPurchases / filteredAssignments (Array.filter)
Filtered(s, all, f) == SelectSeq(all, LAMBDA r : Keeps(s, f, r))

\* Array.prototype.slice(start, end) for 0 <= start <= end
slice(seq, start, end) ==
    SubSeq(seq, start + 1, IF end < Len(seq) THEN end ELSE Len(seq))

\* paginatedAssets / paginatedPurchases / paginatedAssignments
Paginated_firstPage(view, p, size) == slice(view, 0, size)
Paginated(view, p, size) == slice(view, p * size, p * size + size)

\* canApprove, canDelete and canEdit of Transfers and of Purchases
canApprove(r) == r.status = "pending"
baseMatch(s, u, r) ==
    IF s = "transfers"
    THEN r.from_base_id = baseOf(u) \/ r.to_base_id = baseOf(u)
    ELSE r.base_id = baseOf(u)
canDelete(s, u, r) ==
    IF roleOf(u) = "admin" THEN TRUE
    ELSE IF roleOf(u) = "base_commander"
         THEN /\ (r.status = "pending"
                  \/ r.status = (IF s = "transfers" THEN "rejected" ELSE "cancelled"))
              /\ baseMatch(s, u, r)
         ELSE FALSE
canEdit_anyStatus(s, u, r) ==
    IF roleOf(u) = "admin" THEN TRUE
    ELSE IF roleOf(u) = "base_commander"
         THEN baseMatch(s, u, r)
         ELSE FALSE
canEdit(s, u, r) ==
    IF roleOf(u) = "admin" THEN TRUE
    ELSE IF roleOf(u) = "base_commander"
         THEN r.status = "pending" /\ baseMatch(s, u, r)
         ELSE FALSE

\* The state of the list variables while no list screen is open
NoScreen ==
    /\ screen = "none"
    /\ mounted = FALSE
    /\ db = <<>>
    /\ records = <<>>
    /\ total = 0
    /\ listLoading = TRUE
    /\ listError = ""
    /\ page = 0
    /\ rowsPerPage = DefaultRowsPerPage
    /\ filters = NoFilters
    /\ openDialog = FALSE
    /\ editing = 0
    /\ expending = 0
    /\ loads = <<>>
    /\ muts = <<>>
    /\ refsPending = {}
    /\ refsLoaded = {}

----------------------------------------------------------------------------
(* Session Store: AuthProvider *)

\* The state after AuthProvider and DataProvider are constructed: the useState
\* initial values.  Durable storage holds whatever an earlier page load left,
\* tokens drawn from T.
ProvidersInit(T) ==
    /\ lsToken \in T \cup {None}
    /\ lsRefreshToken \in T \cup {None}
    /\ authHeader = None
    /\ user = null
    /\ loading = TRUE
    /\ checkAuthPc = "start"
    /\ loginReqs = 0
    /\ formLoading = FALSE
    /\ refreshReqs = 0
    /\ bases = <<>>
    /\ assetTypes = <<>>
    /\ assets = <<>>
    /\ dataLoading = TRUE
    /\ dataError = null
    /\ effectDue = FALSE
    /\ runs = <<>>
    /\ ev = Step("init")
    /\ loggedOut = FALSE

\* The program started on a route that shows no list
InitOver(T) == ProvidersInit(T) /\ NoScreen

\* The two mount effects of AuthProvider, in order: the header is configured
\* from the persisted token, then checkAuth runs up to its await (or, with no
\* persisted token, to its end).
mountEffects ==
    /\ checkAuthPc = "start"
    /\ authHeader' = IF lsToken # None THEN Bearer(lsToken) ELSE authHeader
    /\ IF lsToken # None
       THEN /\ checkAuthPc' = "profile"
            /\ UNCHANGED <<loading, effectDue>>
       ELSE /\ checkAuthPc' = "done"
            /\ loading' = FALSE
            /\ effectDue' = TRUE
    /\ ev' = Step("mount")
    /\ UNCHANGED <<lsToken, lsRefreshToken, user, loginReqs, formLoading, refreshReqs,
                   loggedOut>>
    /\ UNCHANGED <<dataVars, listVars>>

\* checkAuth after GET /auth/profile succeeded with user u.  setUser and
\* setLoading(false) run back to back in one continuation, so no other handler
\* runs between them.
checkAuthResolved(u) ==
    /\ checkAuthPc = "profile"
    /\ user' = u
    /\ loading' = FALSE
    /\ checkAuthPc' = "done"
    /\ effectDue' = TRUE
    /\ ev' = Event("checkAuthOk", "resolved", None, NoResponse, None, None, u)
    /\ UNCHANGED <<lsToken, lsRefreshToken, authHeader, loginReqs, formLoading, refreshReqs,
                   loggedOut>>
    /\ UNCHANGED <<dataVars, listVars>>

\* A variant of checkAuthRejected whose catch block returns early, so that
\* setLoading(false) is skipped.
checkAuthRejected_staysLoading ==
    /\ checkAuthPc = "profile"
    /\ lsToken' = None
    /\ lsRefreshToken' = None
    /\ authHeader' = None
    /\ checkAuthPc' = "done"
    /\ ev' = Event("checkAuthFail", "resolved", None, NoResponse, lsToken, lsRefreshToken, null)
    /\ UNCHANGED <<user, loading, effectDue, loginReqs, formLoading, refreshReqs, loggedOut>>
    /\ UNCHANGED <<dataVars, listVars>>

\* A variant of checkAuthRejected whose catch block removes 'token' only.
checkAuthRejected_keepsRefresh ==
    /\ checkAuthPc = "profile"
    /\ lsToken' = None
    /\ authHeader' = None
    /\ loading' = FALSE
    /\ checkAuthPc' = "done"
    /\ effectDue' = TRUE
    /\ ev' = Event("checkAuthFail", "resolved", None, NoResponse, lsToken, lsRefreshToken, null)
    /\ UNCHANGED <<lsRefreshToken, user, loginReqs, formLoading, refreshReqs, loggedOut>>
    /\ UNCHANGED <<dataVars, listVars>>

\* A variant of checkAuthRejected whose catch block leaves the header in place.
checkAuthRejected_keepsHeader ==
    /\ checkAuthPc = "profile"
    /\ lsToken' = None
    /\ lsRefreshToken' = None
    /\ loading' = FALSE
    /\ checkAuthPc' = "done"
    /\ effectDue' = TRUE
    /\ ev' = Event("checkAuthFail", "resolved", None, NoResponse, lsToken, lsRefreshToken, null)
    /\ UNCHANGED <<authHeader, user, loginReqs, formLoading, refreshReqs, loggedOut>>
    /\ UNCHANGED <<dataVars, listVars>>

\* checkAuth after GET /auth/profile failed: the catch block, then
\* setLoading(false).  The event records the tokens the block removed.
checkAuthRejected ==
    /\ checkAuthPc = "profile"
    /\ lsToken' = None
    /\ lsRefreshToken' = None
    /\ authHeader' = None
    /\ loading' = FALSE
    /\ checkAuthPc' = "done"
    /\ effectDue' = TRUE
    /\ ev' = Event("checkAuthFail", "resolved", None, NoResponse, lsToken, lsRefreshToken, null)
    /\ UNCHANGED <<user, loginReqs, formLoading, refreshReqs, loggedOut>>
    /\ UNCHANGED <<dataVars, listVars>>

\* The login requests in flight that the mounted form has submitted
FormReqs == IF formLoading THEN 1 ELSE 0

\* The finally block of Login.handleSubmit: setLoading(false) on the instance
\* that submitted the request - the mounted form (own), or a form that has
\* been unmounted since, where the update is dropped.
FormSettles ==
    \E own \in BOOLEAN :
        /\ IF own THEN formLoading ELSE loginReqs > FormReqs
        /\ formLoading' = IF own THEN FALSE ELSE formLoading

\* The browser leaves /login with a request of the form in flight and comes
\* back (Back to a protected route, which redirects to /login while there is
\* no principal): the Login component is mounted anew, loading = false.
remountLogin ==
    /\ checkAuthPc # "start"
    /\ formLoading
    /\ formLoading' = FALSE
    /\ ev' = Step("remountLogin")
    /\ UNCHANGED <<lsToken, lsRefreshToken, authHeader, user, loading,
                   checkAuthPc, loginReqs, refreshReqs, effectDue, loggedOut>>
    /\ UNCHANGED <<dataVars, listVars>>

\* Login.handleSubmit up to the await of login(email, password): the submit
\* button is enabled only while the form is not loading; POST /auth/login is
\* sent.
loginCall ==
    /\ checkAuthPc # "start"
    /\ ~formLoading
    /\ loginReqs < MaxLoginInFlight
    /\ loginReqs' = loginReqs + 1
    /\ formLoading' = TRUE
    /\ ev' = Event("loginCall", "pending", None, NoResponse, None, None, null)
    /\ UNCHANGED <<lsToken, lsRefreshToken, authHeader, user, loading,
                   checkAuthPc, refreshReqs, effectDue, loggedOut>>
    /\ UNCHANGED <<dataVars, listVars>>

\* A variant of loginResolved that builds the header from the token read back
\* before the new one is stored.
loginResolved_staleHeader(u, t, r) ==
    /\ loginReqs > 0
    /\ loginReqs' = loginReqs - 1
    /\ formLoading' = FALSE
    /\ lsToken' = t
    /\ lsRefreshToken' = r
    /\ authHeader' = IF lsToken # None THEN Bearer(lsToken) ELSE None
    /\ user' = u
    /\ effectDue' = TRUE
    /\ loggedOut' = FALSE
    /\ ev' = Event("loginOk", "resolved", None, NoResponse, t, r, u)
    /\ UNCHANGED <<loading, checkAuthPc, refreshReqs>>
    /\ UNCHANGED <<dataVars, listVars>>

\* login after POST /auth/login succeeded with {user: u, token: t,
\* refreshToken: r}.  setUser is given a new object, so the effect that
\* depends on `user` is due even when the same user logs in again.
loginResolved(u, t, r) ==
    /\ loginReqs > 0
    /\ loginReqs' = loginReqs - 1
    /\ formLoading' = FALSE
    /\ lsToken' = t
    /\ lsRefreshToken' = r
    /\ authHeader' = Bearer(t)
    /\ user' = u
    /\ effectDue' = TRUE
    /\ loggedOut' = FALSE
    /\ ev' = Event("loginOk", "resolved", None, NoResponse, t, r, u)
    /\ UNCHANGED <<loading, checkAuthPc, refreshReqs>>
    /\ UNCHANGED <<dataVars, listVars>>

\* A variant of LoginErrorMessage that ignores the server's message.
LoginErrorMessage_fallbackOnly(resp) == "Login failed"

\* error.response?.data?.error || 'Login failed'
LoginErrorMessage(resp) ==
    IF resp.hasResponse /\ Truthy(resp.error) THEN resp.error ELSE "Login failed"

\* login after POST /auth/login failed with resp: the catch block rethrows
loginRejected(resp) ==
    /\ loginReqs > 0
    /\ loginReqs' = loginReqs - 1
    /\ FormSettles
    /\ ev' = Event("loginFail", "rejected", LoginErrorMessage(resp), resp,
                   None, None, null)
    /\ UNCHANGED <<lsToken, lsRefreshToken, authHeader, user, loading,
                   checkAuthPc, refreshReqs, effectDue, loggedOut>>
    /\ UNCHANGED <<dataVars, listVars>>

\* A variant of LogoutWrites that leaves the default header in place.
LogoutWrites_keepsHeader ==
    /\ lsToken' = None
    /\ lsRefreshToken' = None
    /\ user' = null
    /\ effectDue' = (effectDue \/ user # null)
    /\ loggedOut' = TRUE
    /\ UNCHANGED authHeader

\* The body of logout().  setUser(null) changes `user` only when it was set.
LogoutWrites ==
    /\ lsToken' = None
    /\ lsRefreshToken' = None
    /\ authHeader' = None
    /\ user' = null
    /\ effectDue' = (effectDue \/ user # null)
    /\ loggedOut' = TRUE

\* logout().  The event records the tokens it removed.
logout ==
    /\ checkAuthPc # "start"
    /\ LogoutWrites
    /\ ev' = Event("logout", "returned", None, NoResponse, lsToken, lsRefreshToken, null)
    /\ UNCHANGED <<loading, checkAuthPc, loginReqs, formLoading, refreshReqs>>
    /\ UNCHANGED <<dataVars, listVars>>

\* refreshToken() up to its await.  With no persisted refresh token it throws
\* inside the try, so the catch block runs logout() and rethrows.
refreshTokenCall ==
    /\ checkAuthPc # "start"
    /\ IF lsRefreshToken = None
       THEN /\ LogoutWrites
            /\ ev' = Event("refreshNoToken", "rejected", "No refresh token", NoResponse, lsToken, lsRefreshToken, null)
            /\ UNCHANGED refreshReqs
       ELSE /\ refreshReqs < MaxRefreshInFlight
            /\ refreshReqs' = refreshReqs + 1
            /\ ev' = Event("refreshCall", "pending", None, NoResponse, None, None, null)
            /\ UNCHANGED <<lsToken, lsRefreshToken, authHeader, user,
                           effectDue, loggedOut>>
    /\ UNCHANGED <<loading, checkAuthPc, loginReqs, formLoading>>
    /\ UNCHANGED <<dataVars, listVars>>

\* refreshToken after POST /auth/refresh succeeded with {token: t}
refreshTokenResolved(t) ==
    /\ refreshReqs > 0
    /\ refreshReqs' = refreshReqs - 1
    /\ lsToken' = t
    /\ authHeader' = Bearer(t)
    /\ ev' = Event("refreshOk", "resolved", None, NoResponse, t, None, null)
    /\ UNCHANGED <<lsRefreshToken, user, loading, checkAuthPc, loginReqs, formLoading,
                   effectDue, loggedOut>>
    /\ UNCHANGED <<dataVars, listVars>>

\* A variant of refreshTokenRejected whose catch block rethrows without
\* calling logout().
refreshTokenRejected_noLogout(resp) ==
    /\ refreshReqs > 0
    /\ refreshReqs' = refreshReqs - 1
    /\ ev' = Event("refreshFail", "rejected", "request failed", NoResponse, lsToken, lsRefreshToken, null)
    /\ UNCHANGED <<lsToken, lsRefreshToken, authHeader, user, effectDue,
                   loggedOut>>
    /\ UNCHANGED <<loading, checkAuthPc, loginReqs, formLoading>>
    /\ UNCHANGED <<dataVars, listVars>>

\* refreshToken after POST /auth/refresh failed with resp: logout(), then the
\* error is rethrown as it is
refreshTokenRejected(resp) ==
    /\ refreshReqs > 0
    /\ refreshReqs' = refreshReqs - 1
    /\ LogoutWrites
    /\ ev' = Event("refreshFail", "rejected", "request failed", NoResponse, lsToken, lsRefreshToken, null)
    /\ UNCHANGED <<loading, checkAuthPc, loginReqs, formLoading>>
    /\ UNCHANGED <<dataVars, listVars>>

\* One step of the Session Store, the server's answers drawn from tokens T,
\* users U and failed responses R.
AuthStep(T, U, R) ==
    \/ mountEffects
    \/ \E u \in U : checkAuthResolved(u)
    \/ checkAuthRejected
    \/ loginCall
    \/ \E u \in U, t \in T, r \in T : loginResolved(u, t, r)
    \/ \E resp \in R : loginRejected(resp)
    \/ logout
    \/ refreshTokenCall
    \/ \E t \in T : refreshTokenResolved(t)
    \/ \E resp \in R : refreshTokenRejected(resp)

Init == InitOver(Tokens)
NextAuth == AuthStep(Tokens, Users, FailedResponses) \/ remountLogin

\* The Session Store alone
AuthSpec == Init /\ [][NextAuth]_vars

\* The Session Store started on a storage that holds both tokens or neither
PairedInit == Init /\ ((lsToken = None) <=> (lsRefreshToken = None))
PairedSpec == PairedInit /\ [][NextAuth]_vars

\* The mount effects run once React has committed the first render, and the
\* profile request settles.
FairAuthSpec ==
    /\ AuthSpec
    /\ WF_vars(mountEffects)
    /\ WF_vars(checkAuthRejected \/ \E u \in Users : checkAuthResolved(u))

----------------------------------------------------------------------------
(* Shared Reference Cache: DataProvider *)

\* The message the catch block of fetchBases / fetchAssetTypes / fetchAssets sets
FetchErrorMessage(kind, resp) ==
    IF resp.hasResponse /\ resp.status = 401
    THEN "Authentication required. Please log in."
    ELSE CASE kind = "bases" -> "Failed to fetch bases"
           [] kind = "assetTypes" -> "Failed to fetch asset types"
           [] kind = "assets" -> "Failed to fetch assets"

\* A group of fetches started together.  `initial` groups are the Promise.all
\* of initializeData, whose finally block runs when every member has settled;
\* a refreshX() call is a group of one that is not `initial`.  `authed` records
\* whether the requests were sent with an Authorization header.
Run(pending, authed, initial) ==
    [pending |-> pending, authed |-> authed, initial |-> initial]

RemoveAt(seq, i) == [j \in 1..(Len(seq) - 1) |-> IF j < i THEN seq[j] ELSE seq[j + 1]]

\* runs after fetch `kind` of group i settled
SettleRuns(i, kind) ==
    IF runs[i].pending = {kind}
    THEN RemoveAt(runs, i)
    ELSE [runs EXCEPT ![i].pending = @ \ {kind}]

\* loading after fetch `kind` of group i settled: the finally block of
\* initializeData runs once the last fetch of its Promise.all has settled
SettleLoading(i, kind) ==
    IF runs[i].initial /\ runs[i].pending = {kind} THEN FALSE ELSE dataLoading

\* The effect on [user, authLoading]: initializeData up to its await, or to its
\* end when there is no user.
initializeData ==
    /\ effectDue
    /\ effectDue' = FALSE
    /\ IF loading
       THEN UNCHANGED dataVars
       ELSE IF user # null
            THEN /\ Len(runs) < MaxRuns
                 /\ dataLoading' = TRUE
                 /\ runs' = Append(runs, Run(Kinds, authHeader # None, TRUE))
                 /\ UNCHANGED <<bases, assetTypes, assets, dataError>>
            ELSE /\ dataLoading' = FALSE
                 /\ bases' = <<>>
                 /\ assetTypes' = <<>>
                 /\ assets' = <<>>
                 /\ UNCHANGED <<dataError, runs>>
    /\ ev' = Step("initializeData")
    /\ UNCHANGED <<authVars, listVars>>
    /\ UNCHANGED loggedOut

\* refreshBases / refreshAssetTypes / refreshAssets up to the await.  The
\* consumers of useData() are screens under ProtectedRoute, which renders them
\* only when auth loading is false and there is a user.
refreshData ==
    /\ ~loading
    /\ user # null
    /\ Len(runs) < MaxRuns
    /\ \E kind \in Kinds :
          runs' = Append(runs, Run({kind}, authHeader # None, FALSE))
    /\ ev' = Step("refreshData")
    /\ UNCHANGED <<bases, assetTypes, assets, dataLoading, dataError>>
    /\ UNCHANGED <<authVars, listVars>>
    /\ UNCHANGED <<effectDue, loggedOut>>

\* The writes of a fetch whose GET succeeded with `rows`
FetchOkWrites(kind, rows) ==
    /\ bases' = IF kind = "bases" THEN rows ELSE bases
    /\ assetTypes' = IF kind = "assetTypes" THEN rows ELSE assetTypes
    /\ assets' = IF kind = "assets" THEN rows ELSE assets
    /\ dataError' = null

\* fetchBases / fetchAssetTypes / fetchAssets of group i after the GET
\* succeeded with rows.  The server answers a list request only when it
\* carried a bearer credential.
fetchResolved(i, kind, rows) ==
    /\ i \in 1..Len(runs)
    /\ runs[i].authed
    /\ kind \in runs[i].pending
    /\ FetchOkWrites(kind, rows)
    /\ runs' = SettleRuns(i, kind)
    /\ dataLoading' = SettleLoading(i, kind)
    /\ ev' = Step("fetchOk")
    /\ UNCHANGED <<authVars, listVars>>
    /\ UNCHANGED <<effectDue, loggedOut>>

\* fetchBases / fetchAssetTypes / fetchAssets of group i after the GET failed
\* with resp: the catch block sets the error and the promise still resolves
fetchRejected(i, kind, resp) ==
    /\ i \in 1..Len(runs)
    /\ kind \in runs[i].pending
    /\ dataError' = FetchErrorMessage(kind, resp)
    /\ runs' = SettleRuns(i, kind)
    /\ dataLoading' = SettleLoading(i, kind)
    /\ ev' = Step("fetchFail")
    /\ UNCHANGED <<bases, assetTypes, assets>>
    /\ UNCHANGED <<authVars, listVars>>
    /\ UNCHANGED <<effectDue, loggedOut>>

\* A failed list request: no response, a 401, or another status
FetchFailures ==
    {NoResponse,
     [hasResponse |-> TRUE, status |-> 401, error |-> "Unauthorized"],
     [hasResponse |-> TRUE, status |-> 500, error |-> None]}

\* One step of the Shared Reference Cache
DataStep ==
    \/ initializeData
    \/ refreshData
    \/ \E i \in 1..MaxRuns, kind \in Kinds, rows \in ServerRows :
          fetchResolved(i, kind, rows)
    \/ \E i \in 1..MaxRuns, kind \in Kinds, resp \in FetchFailures :
          fetchRejected(i, kind, resp)

\* The whole program.  The Shared Reference Cache reads of the session only
\* whether there is a user, whether auth is loading and whether a header is
\* set, so one token, one user and one failed response stand for the server's
\* answers to the Session Store here.
Next ==
    \/ AuthStep({"tA"}, {"u1"}, {NoResponse})
    \/ DataStep

Spec == InitOver({"tA"}) /\ [][Next]_vars

----------------------------------------------------------------------------
(* The list endpoints of the server *)

\* The collection of resource s the server holds at first: records j = k+1,
\* k+2, ... run through every combination of status and base
StatusesOf(s) ==
    CASE s = "transfers" -> <<"pending", "approved", "rejected">>
      [] s = "purchases" -> <<"pending", "approved", "cancelled">>
      [] s = "assignments" -> <<"active", "returned", "expended">>
      [] s = "assets" -> <<"available", "assigned", "maintenance">>
      [] OTHER -> <<"", "", "">>
RowAt(s, j) ==
    Row(j,
        IF j % 2 = 1 THEN <<"M", "4">> ELSE <<"j", "e", "e", "p">>,
        StatusesOf(s)[((j - 1) % 3) + 1],
        IF s = "transfers" THEN "" ELSE IF j % 2 = 1 THEN "B1" ELSE "B2",
        IF s # "transfers" THEN "" ELSE IF j % 2 = 1 THEN "B1" ELSE "B2",
        IF s # "transfers" THEN "" ELSE IF (j % 4) \in {1, 2} THEN "B2" ELSE "B1",
        20240100 + j)
Collection(s, n, k) == [i \in 1..n |-> RowAt(s, i + k)]

\* One record more than the first page of a table holds
InitialLength == DefaultRowsPerPage + 1

\* GET /<resource>?page=&limit=&<base filter>= answered from collection d
ServerList(s, q, d) ==
    LET matching ==
            IF s \in ServerPaged
            THEN SelectSeq(d, LAMBDA r :
                     \/ q.base = ""
                     \/ (IF s = "transfers" THEN r.from_base_id ELSE r.base_id) = q.base)
            ELSE d
        start == (q.page - 1) * q.limit
    IN  [data |-> slice(matching, start, start + q.limit), total |-> Len(matching)]

\* The collection after the server carried out mutation m on collection d
ServerApply(s, m, d) ==
    CASE m.op = "approve" ->
           [i \in DOMAIN d |->
               IF d[i].id = m.id THEN [d[i] EXCEPT !.status = "approved"] ELSE d[i]]
      [] m.op = "reject" ->
           [i \in DOMAIN d |->
               IF d[i].id = m.id
               THEN [d[i] EXCEPT !.status =
                        IF s = "transfers" THEN "rejected" ELSE "cancelled"]
               ELSE d[i]]
      [] m.op = "expend" ->
           [i \in DOMAIN d |->
               IF d[i].id = m.id THEN [d[i] EXCEPT !.status = "expended"] ELSE d[i]]
      [] m.op = "delete" -> SelectSeq(d, LAMBDA r : r.id # m.id)
      [] m.op = "create" ->
           IF \E i \in DOMAIN d : d[i].id > MaxRows
           THEN d
           ELSE Append(d, RowAt(s, MaxRows + 1))
      [] OTHER -> d

\* The mutations the server carries out: approve and reject / cancel of a
\* pending record, any other change of a record it holds, a create
ServerAccepts(s, m, d) ==
    \/ m.op = "create"
    \/ \E i \in DOMAIN d :
          /\ d[i].id = m.id
          /\ m.op \in {"approve", "reject"} => d[i].status = "pending"

\* A failed list or mutation request: no response, a response carrying an
\* error message, a response carrying an empty one
ListFailures ==
    {NoResponse,
     [hasResponse |-> TRUE, status |-> 401, error |-> "Unauthorized"],
     [hasResponse |-> TRUE, status |-> 500, error |-> ""]}

----------------------------------------------------------------------------
(* Record List Controllers: Assets, Purchases, Transfers, Assignments,      *)
(* Expenditures                                                            *)

\* What ProtectedRoute renders
ProtectedRoute ==
    IF loading THEN "spinner" ELSE IF user = null THEN "login" ELSE "children"

\* The controller is mounted under a ProtectedRoute that renders it
Live == mounted /\ ProtectedRoute = "children"

\* The screen shows the progress indicator in place of the list
Spinner == listLoading /\ (screen \in ClientPaged \/ records = <<>>)
Interactive == Live /\ ~Spinner

\* The records of the table body and the `count` of TablePagination
TableRows ==
    IF screen \in ServerPaged
    THEN records
    ELSE Paginated(Filtered(screen, records, filters), page, rowsPerPage)
Count ==
    IF screen \in ServerPaged THEN total ELSE Len(Filtered(screen, records, filters))
Shown(id) == \E i \in DOMAIN TableRows : TableRows[i].id = id
RowOf(id) == TableRows[CHOOSE i \in DOMAIN TableRows : TableRows[i].id = id]

\* The buttons the screen renders for principal u (and record r)
ShowsCreate(s, u) ==
    CASE s = "transfers" -> roleOf(u) \in {"base_commander", "admin"}
      [] s = "purchases" -> roleOf(u) # "logistics_officer"
      [] s = "assignments" -> TRUE
      [] OTHER -> FALSE
ShowsEdit(s, u, r) ==
    CASE s \in {"transfers", "purchases"} ->
           roleOf(u) # "logistics_officer" /\ canEdit(s, u, r)
      [] s = "assets" -> roleOf(u) = "admin"
      [] s = "assignments" -> TRUE
      [] OTHER -> FALSE
ShowsDelete(s, u, r) ==
    CASE s \in {"transfers", "purchases"} ->
           roleOf(u) # "logistics_officer" /\ canDelete(s, u, r)
      [] s = "assignments" -> roleOf(u) # "logistics_officer"
      [] OTHER -> roleOf(u) = "admin"
ShowsApprove_anyRole(s, u, r) ==
    /\ s \in {"transfers", "purchases"}
    /\ roleOf(u) # "logistics_officer"
    /\ canApprove(r)
ShowsApprove(s, u, r) ==
    /\ s \in {"transfers", "purchases"}
    /\ roleOf(u) # "logistics_officer"
    /\ roleOf(u) = "admin" /\ canApprove(r)
ShowsExpend(s, u, r) == s = "assignments" /\ r.status # "expended"

\* Everything outside the screen, and what a handler that fetches no
\* reference collection leaves alone
sessionVars == <<authVars, dataVars, effectDue, ev, loggedOut>>
otherVars == <<sessionVars, refsPending, refsLoaded>>

\* The reference collections the mount effect of screen s fetches besides the
\* list: fetchBases, fetchAssets, fetchPersonnel
ReferenceFetches(s) ==
    CASE s = "transfers" -> {"bases", "assets"}
      [] s = "purchases" -> {"bases"}
      [] s = "assignments" -> {"assets", "personnel", "bases"}
      [] OTHER -> {}

\* The effect of Transfers depends on fetchTransfers, so it fetches the
\* reference collections again whenever the page, page size or filters change.
\* A collection requested again while its GET is pending is tracked once.
EffectRefetch ==
    /\ refsPending' = IF screen = "transfers"
                      THEN refsPending \cup ReferenceFetches(screen)
                      ELSE refsPending
    /\ UNCHANGED refsLoaded

\* A request of the controller: the query string built from the page, page
\* size and filters of the render whose closure issues it, whether the issuing
\* instance is still mounted, whether an Authorization header went with it,
\* and the operation (and record) it belongs to
Query(p, size, f, live, op, id) ==
    [page |-> IF screen \in ServerPaged THEN p + 1 ELSE 1,
     limit |-> IF screen \in ServerPaged THEN size ELSE FetchAllLimit,
     base |-> IF screen = "transfers" THEN f.from_base_id
              ELSE IF screen = "expenditures" THEN f.base_id ELSE "",
     live |-> live, authed |-> authHeader # None, op |-> op, id |-> id]

\* fetchAllAssets / fetchAllPurchases / fetchTransfers / fetchAllAssignments /
\* fetchExpenditures up to the await: setLoading(true), then the GET
Fetch(q) ==
    /\ loads' = Append(loads, q)
    /\ listLoading' = IF q.live THEN TRUE ELSE listLoading

\* A request can be added to those in flight
Room == Len(loads) + Len(muts) < MaxInFlight
PageRoom == muts = <<>> /\ Len(loads) < MaxLoads

\* The message the catch block of a fetch sets
LoadErrorMessage(s, resp) ==
    IF resp.hasResponse /\ Truthy(resp.error)
    THEN resp.error
    ELSE "Failed to fetch " \o s

\* The message the catch block of a mutation handler sets
Noun(s) ==
    CASE s = "assets" -> "asset"
      [] s = "purchases" -> "purchase"
      [] s = "transfers" -> "transfer"
      [] s = "assignments" -> "assignment"
      [] OTHER -> "expenditure"
Verb(s, op) ==
    IF op \in {"create", "update"}
    THEN IF s = "transfers" THEN "create" ELSE "save"
    ELSE op
MutationErrorMessage(s, op, resp) ==
    IF resp.hasResponse /\ Truthy(resp.error)
    THEN resp.error
    ELSE "Failed to " \o Verb(s, op) \o " " \o Noun(s)

\* The route of `screen` is entered: ProtectedRoute renders the screen, the
\* controller mounts with its useState values and its mount effect fetches
mountScreen ==
    /\ screen # "none"
    /\ ~mounted
    /\ ProtectedRoute = "children"
    /\ mounted' = TRUE
    /\ Room
    /\ Fetch(Query(0, DefaultRowsPerPage, NoFilters, TRUE, "effect", 0))
    /\ refsPending' = ReferenceFetches(screen)
    /\ refsLoaded' = {}
    /\ UNCHANGED <<screen, db, records, total, listError, page, rowsPerPage,
                   filters, openDialog, editing, expending, muts>>
    /\ UNCHANGED sessionVars

\* The user leaves the route and comes back to it later (mountScreen): the
\* controller unmounts and its state is dropped.  Its requests stay in flight;
\* React ignores the state updates their continuations make on the unmounted
\* instance.
unmountScreen ==
    /\ Live
    /\ mounted' = FALSE
    /\ loads' = [i \in DOMAIN loads |-> [loads[i] EXCEPT !.live = FALSE]]
    /\ muts' = [i \in DOMAIN muts |-> [muts[i] EXCEPT !.live = FALSE]]
    /\ records' = <<>>
    /\ total' = 0
    /\ listLoading' = TRUE
    /\ listError' = ""
    /\ page' = 0
    /\ rowsPerPage' = DefaultRowsPerPage
    /\ filters' = NoFilters
    /\ openDialog' = FALSE
    /\ editing' = 0
    /\ expending' = 0
    /\ refsPending' = {}
    /\ refsLoaded' = {}
    /\ UNCHANGED <<screen, db>>
    /\ UNCHANGED sessionVars

\* Variant: the response is written whether or not the screen is still mounted
loadResolved_ignoresUnmount(i) ==
    /\ i \in 1..Len(loads)
    /\ loads[i].authed
    /\ LET resp == ServerList(screen, loads[i], db)
       IN  IF TRUE
           THEN /\ records' = resp.data
                /\ total' = IF screen \in ServerPaged THEN resp.total ELSE total
                /\ listLoading' = FALSE
           ELSE UNCHANGED <<records, total, listLoading>>
    /\ loads' = RemoveAt(loads, i)
    /\ UNCHANGED <<screen, mounted, db, listError, page, rowsPerPage, filters,
                   openDialog, editing, expending, muts>>
    /\ UNCHANGED otherVars

\* A fetch after its GET succeeded: the response replaces the collection (and
\* the total of a server-paged list); finally, setLoading(false).  State
\* updates of an unmounted instance are dropped.
loadResolved(i) ==
    /\ i \in 1..Len(loads)
    /\ loads[i].authed
    /\ LET resp == ServerList(screen, loads[i], db)
       IN  IF loads[i].live /\ Live
           THEN /\ records' = resp.data
                /\ total' = IF screen \in ServerPaged THEN resp.total ELSE total
                /\ listLoading' = FALSE
           ELSE UNCHANGED <<records, total, listLoading>>
    /\ loads' = RemoveAt(loads, i)
    /\ UNCHANGED <<screen, mounted, db, listError, page, rowsPerPage, filters,
                   openDialog, editing, expending, muts>>
    /\ UNCHANGED otherVars

\* A fetch after its GET failed with resp: catch, setError; finally,
\* setLoading(false)
loadRejected_dropsRecords(i, resp) ==
    /\ i \in 1..Len(loads)
    /\ IF loads[i].live /\ Live
       THEN /\ listError' = LoadErrorMessage(screen, resp)
            /\ listLoading' = FALSE
            /\ records' = <<>>
       ELSE UNCHANGED <<listError, listLoading, records>>
    /\ loads' = RemoveAt(loads, i)
    /\ UNCHANGED <<screen, mounted, db, total, page, rowsPerPage,
                   filters, openDialog, editing, expending, muts>>
    /\ UNCHANGED otherVars
loadRejected_retries(i, resp) ==
    /\ i \in 1..Len(loads)
    /\ IF loads[i].live /\ Live
       THEN /\ listError' = LoadErrorMessage(screen, resp)
            /\ listLoading' = FALSE
       ELSE UNCHANGED <<listError, listLoading>>
    /\ loads' = IF resp.hasResponse /\ resp.status = 401
                THEN Append(RemoveAt(loads, i), loads[i])
                ELSE RemoveAt(loads, i)
    /\ UNCHANGED <<screen, mounted, db, records, total, page, rowsPerPage,
                   filters, openDialog, editing, expending, muts>>
    /\ UNCHANGED otherVars
loadRejected(i, resp) ==
    /\ i \in 1..Len(loads)
    /\ IF loads[i].live /\ Live
       THEN /\ listError' = LoadErrorMessage(screen, resp)
            /\ listLoading' = FALSE
       ELSE UNCHANGED <<listError, listLoading>>
    /\ loads' = RemoveAt(loads, i)
    /\ UNCHANGED <<screen, mounted, db, records, total, page, rowsPerPage,
                   filters, openDialog, editing, expending, muts>>
    /\ UNCHANGED otherVars

\* fetchBases / fetchAssets / fetchPersonnel of the screen after the GET
\* succeeded: setBases / setAssets / setPersonnel
referenceResolved(kind) ==
    /\ kind \in refsPending
    /\ refsPending' = refsPending \ {kind}
    /\ refsLoaded' = IF Live THEN refsLoaded \cup {kind} ELSE refsLoaded
    /\ UNCHANGED <<screen, mounted, db, records, total, listLoading, listError,
                   page, rowsPerPage, filters, openDialog, editing, expending,
                   loads, muts>>
    /\ UNCHANGED sessionVars

\* fetchBases / fetchAssets / fetchPersonnel of the screen after the GET
\* failed: the catch block calls console.error and sets no state
referenceRejected(kind, resp) ==
    /\ kind \in refsPending
    /\ refsPending' = refsPending \ {kind}
    /\ UNCHANGED <<screen, mounted, db, records, total, listLoading, listError,
                   page, rowsPerPage, filters, openDialog, editing, expending,
                   loads, muts, refsLoaded>>
    /\ UNCHANGED sessionVars

\* The list is shown and no dialog covers it
Idle == Interactive /\ ~openDialog /\ expending = 0

\* handleChangePage / onPageChange: the next and previous page buttons of
\* TablePagination.  fetchTransfers and fetchExpenditures depend on the page,
\* so their effect runs again.
handleChangePage(p) ==
    /\ Idle
    /\ \/ p = page + 1 /\ (page + 1) * rowsPerPage < Count
       \/ p + 1 = page
    /\ page' = p
    /\ IF screen \in ServerPaged
       THEN PageRoom /\ Fetch(Query(p, rowsPerPage, filters, TRUE, "effect", 0))
       ELSE UNCHANGED <<loads, listLoading>>
    /\ EffectRefetch
    /\ UNCHANGED <<screen, mounted, db, records, total, listError, rowsPerPage,
                   filters, openDialog, editing, expending, muts>>
    /\ UNCHANGED sessionVars

\* handleChangeRowsPerPage / onRowsPerPageChange
handleChangeRowsPerPage(n) ==
    /\ Idle
    /\ n \in PageSizes(screen)
    /\ n # rowsPerPage
    /\ rowsPerPage' = n
    /\ page' = 0
    /\ IF screen \in ServerPaged
       THEN Room /\ Fetch(Query(0, n, filters, TRUE, "effect", 0))
       ELSE UNCHANGED <<loads, listLoading>>
    /\ EffectRefetch
    /\ UNCHANGED <<screen, mounted, db, records, total, listError, filters,
                   openDialog, editing, expending, muts>>
    /\ UNCHANGED sessionVars

\* The filters handleFiltersChange sets when the filter bar applies base b
\* (Apply Filters with a base selected, or Clear Filters with b = "")
FiltersSet(s, b) ==
    IF s = "transfers"
    THEN [filters EXCEPT !.from_base_id = b]
    ELSE [NoFilters EXCEPT !.base_id = b]

\* handleFiltersChange, the onFiltersChange of FilterBar.  Only Assets and
\* Expenditures call setPage(0).
handleFiltersChange(b) ==
    /\ Idle
    /\ filters' = FiltersSet(screen, b)
    /\ page' = IF screen \in {"assets", "expenditures"} THEN 0 ELSE page
    /\ IF screen \in ServerPaged
       THEN Room /\ Fetch(Query(page', rowsPerPage, filters', TRUE, "effect", 0))
       ELSE UNCHANGED <<loads, listLoading>>
    /\ EffectRefetch
    /\ UNCHANGED <<screen, mounted, db, records, total, listError, rowsPerPage,
                   openDialog, editing, expending, muts>>
    /\ UNCHANGED sessionVars

\* onClose of the error Alert
dismissError ==
    /\ Interactive
    /\ listError # ""
    /\ listError' = ""
    /\ UNCHANGED <<screen, mounted, db, records, total, listLoading, page,
                   rowsPerPage, filters, openDialog, editing, expending, loads,
                   muts>>
    /\ UNCHANGED otherVars

\* handleOpenDialog(record) from the Edit button of record id, and
\* handleOpenDialog() from the create button (id = 0)
handleOpenDialog(id) ==
    /\ Idle
    /\ \/ id = 0 /\ ShowsCreate(screen, user)
       \/ /\ id \in Targets
          /\ Shown(id)
          /\ ShowsEdit(screen, user, RowOf(id))
    /\ editing' = id
    /\ openDialog' = TRUE
    /\ UNCHANGED <<screen, mounted, db, records, total, listLoading, listError,
                   page, rowsPerPage, filters, expending, loads, muts>>
    /\ UNCHANGED otherVars

\* handleCloseDialog; the one of Transfers also clears the error
handleCloseDialog ==
    /\ Interactive
    /\ openDialog
    /\ openDialog' = FALSE
    /\ editing' = 0
    /\ listError' = IF screen = "transfers" THEN "" ELSE listError
    /\ UNCHANGED <<screen, mounted, db, records, total, listLoading, page,
                   rowsPerPage, filters, expending, loads, muts>>
    /\ UNCHANGED otherVars

\* A mutation handler up to its await: the request is sent
Send(op, id) ==
    /\ Room
    /\ muts' = Append(muts, Query(page, rowsPerPage, filters, TRUE, op, id))

\* handleSubmit / handleCreateTransfer up to the await.  Transfers and
\* Assignments validate the form first; Transfers always POSTs.
handleSubmit(valid) ==
    /\ Interactive
    /\ openDialog
    /\ IF valid
       THEN /\ IF screen # "transfers" /\ editing # 0
               THEN Send("update", editing)
               ELSE Send("create", 0)
            /\ UNCHANGED listError
       ELSE /\ screen \in {"transfers", "assignments"}
            /\ listError' = IF screen = "transfers"
                            THEN "Please fill in all required fields"
                            ELSE "Selected asset not found"
            /\ UNCHANGED muts
    /\ UNCHANGED <<screen, mounted, db, records, total, listLoading, page,
                   rowsPerPage, filters, openDialog, editing, expending, loads>>
    /\ UNCHANGED otherVars

\* handleDelete / handleDeleteTransfer / handleDeleteExpenditure from the
\* Delete button of record id up to the await; `confirmed` is what
\* window.confirm returned
handleDelete_noConfirm(id, confirmed) ==
    /\ Idle
    /\ id \in Targets
    /\ Shown(id)
    /\ ShowsDelete(screen, user, RowOf(id))
    /\ Send("delete", id)
    /\ UNCHANGED <<screen, mounted, db, records, total, listLoading, listError,
                   page, rowsPerPage, filters, openDialog, editing, expending,
                   loads>>
    /\ UNCHANGED otherVars
handleDelete(id, confirmed) ==
    /\ Idle
    /\ id \in Targets
    /\ Shown(id)
    /\ ShowsDelete(screen, user, RowOf(id))
    /\ IF confirmed THEN Send("delete", id) ELSE UNCHANGED muts
    /\ UNCHANGED <<screen, mounted, db, records, total, listLoading, listError,
                   page, rowsPerPage, filters, openDialog, editing, expending,
                   loads>>
    /\ UNCHANGED otherVars

\* handleApprove / handleApproveTransfer (op = "approve") and handleReject /
\* handleRejectTransfer (op = "reject") from the buttons of record id
handleApprove(op, id) ==
    /\ Idle
    /\ op \in {"approve", "reject"}
    /\ id \in Targets
    /\ Shown(id)
    /\ ShowsApprove(screen, user, RowOf(id))
    /\ Send(op, id)
    /\ UNCHANGED <<screen, mounted, db, records, total, listLoading, listError,
                   page, rowsPerPage, filters, openDialog, editing, expending,
                   loads>>
    /\ UNCHANGED otherVars

\* handleExpend from the Expend button of assignment id
handleExpend(id) ==
    /\ Idle
    /\ id \in Targets
    /\ Shown(id)
    /\ ShowsExpend(screen, user, RowOf(id))
    /\ expending' = id
    /\ UNCHANGED <<screen, mounted, db, records, total, listLoading, listError,
                   page, rowsPerPage, filters, openDialog, editing, loads, muts>>
    /\ UNCHANGED otherVars

\* handleExpendCancel
handleExpendCancel ==
    /\ Interactive
    /\ expending # 0
    /\ expending' = 0
    /\ UNCHANGED <<screen, mounted, db, records, total, listLoading, listError,
                   page, rowsPerPage, filters, openDialog, editing, loads, muts>>
    /\ UNCHANGED otherVars

\* String.prototype.trim, and the texts typed as the reason of an expenditure
RECURSIVE trimStart(_)
trimStart(str) ==
    IF str # <<>> /\ Head(str) = " " THEN trimStart(Tail(str)) ELSE str
RECURSIVE trimEnd(_)
trimEnd(str) ==
    IF str # <<>> /\ str[Len(str)] = " "
    THEN trimEnd(SubSeq(str, 1, Len(str) - 1))
    ELSE str
trim(str) == trimEnd(trimStart(str))
Reasons == {<<>>, <<" ">>, <<" ", "x", " ">>}

\* handleExpendSubmit up to the await, with the reason typed in the dialog
handleExpendSubmit(reason) ==
    /\ Interactive
    /\ expending # 0
    /\ IF trim(reason) # <<>>
       THEN Send("expend", expending) /\ UNCHANGED listError
       ELSE listError' = "Reason is required for expenditure" /\ UNCHANGED muts
    /\ UNCHANGED <<screen, mounted, db, records, total, listLoading, page,
                   rowsPerPage, filters, openDialog, editing, expending, loads>>
    /\ UNCHANGED otherVars

\* A mutation handler after its request succeeded: the server has carried the
\* mutation out; the handler closes its dialog and calls the fetch of the
\* render it was created in.  The fetch is sent even when the instance is
\* gone; its state updates are dropped then.
mutationResolved_patches(i) ==
    /\ i \in 1..Len(muts)
    /\ muts[i].authed
    /\ ServerAccepts(screen, muts[i], db)
    /\ LET m == muts[i]
           alive == m.live /\ Live
       IN  /\ db' = ServerApply(screen, m, db)
           /\ records' = IF alive THEN ServerApply(screen, m, records) ELSE records
           /\ UNCHANGED <<loads, listLoading>>
           /\ IF alive /\ m.op \in {"create", "update"}
              THEN /\ openDialog' = FALSE
                   /\ editing' = IF screen = "transfers" THEN editing ELSE 0
                   /\ listError' = IF screen = "transfers" THEN "" ELSE listError
              ELSE UNCHANGED <<openDialog, editing, listError>>
           /\ expending' = IF alive /\ m.op = "expend" THEN 0 ELSE expending
    /\ muts' = RemoveAt(muts, i)
    /\ UNCHANGED <<screen, mounted, total, page, rowsPerPage, filters>>
    /\ UNCHANGED otherVars
mutationResolved(i) ==
    /\ i \in 1..Len(muts)
    /\ muts[i].authed
    /\ ServerAccepts(screen, muts[i], db)
    /\ LET m == muts[i]
           alive == m.live /\ Live
       IN  /\ db' = ServerApply(screen, m, db)
           /\ Fetch([m EXCEPT !.live = alive, !.authed = authHeader # None])
           /\ IF alive /\ m.op \in {"create", "update"}
              THEN /\ openDialog' = FALSE
                   /\ editing' = IF screen = "transfers" THEN editing ELSE 0
                   /\ listError' = IF screen = "transfers" THEN "" ELSE listError
              ELSE UNCHANGED <<openDialog, editing, listError>>
           /\ expending' = IF alive /\ m.op = "expend" THEN 0 ELSE expending
    /\ muts' = RemoveAt(muts, i)
    /\ UNCHANGED <<screen, mounted, records, total, page, rowsPerPage, filters>>
    /\ UNCHANGED otherVars

\* A mutation handler after its request failed with resp: catch, setError
mutationRejected(i, resp) ==
    /\ i \in 1..Len(muts)
    /\ listError' = IF muts[i].live /\ Live
                    THEN MutationErrorMessage(screen, muts[i].op, resp)
                    ELSE listError
    /\ muts' = RemoveAt(muts, i)
    /\ UNCHANGED <<screen, mounted, db, records, total, listLoading, page,
                   rowsPerPage, filters, openDialog, editing, expending, loads>>
    /\ UNCHANGED otherVars

\* The bases the filter bar offers, "" when none is selected
BaseChoices == {"", "B1"}

\* The steps that show the list: entering the route, a fetch that succeeds,
\* paging
ReadStep ==
    \/ mountScreen
    \/ \E i \in 1..MaxLoads : loadResolved(i)
    \/ \E p \in 0..MaxRows : handleChangePage(p)

\* The steps that change what the list shows
ViewStep ==
    \/ \E n \in 1..MaxPageSize : handleChangeRowsPerPage(n)
    \/ \E b \in BaseChoices : handleFiltersChange(b)

\* The create / edit dialog opens and closes
DialogStep ==
    \/ \E id \in Targets \cup {0} : handleOpenDialog(id)
    \/ handleCloseDialog

\* The steps that change records, and the failures
MutationStep ==
    \/ \E i \in 1..MaxInFlight, resp \in ListFailures : loadRejected(i, resp)
    \/ dismissError
    \/ \E valid \in BOOLEAN : handleSubmit(valid)
    \/ \E id \in Targets, confirmed \in BOOLEAN : handleDelete(id, confirmed)
    \/ \E op \in {"approve", "reject"}, id \in Targets : handleApprove(op, id)
    \/ \E id \in Targets : handleExpend(id)
    \/ handleExpendCancel
    \/ \E reason \in Reasons : handleExpendSubmit(reason)
    \/ \E i \in 1..MaxInFlight : mutationResolved(i)
    \/ \E i \in 1..MaxInFlight : mutationRejected(i, NoResponse)

\* The reference fetches of the screen settle
ReferenceKinds == {"bases", "assets", "personnel"}
RefStep ==
    \/ \E kind \in ReferenceKinds : referenceResolved(kind)
    \/ \E kind \in ReferenceKinds, resp \in ListFailures :
          referenceRejected(kind, resp)

\* The startup session check, answered with a principal of P
Startup(P) ==
    \/ mountEffects
    \/ \E u \in P : checkAuthResolved(u)
    \/ checkAuthRejected

\* The browser opens the route of a screen of S with a persisted session; the
\* server holds a collection of one of the lengths N, starting at one of
\* the records K
ListInitOver(S, N, K) ==
    /\ ProvidersInit({"tA"})
    /\ lsToken = "tA"
    /\ lsRefreshToken = "tA"
    /\ screen \in S
    /\ mounted = FALSE
    /\ db \in {Collection(screen, n, k) : n \in N, k \in K}
    /\ records = <<>>
    /\ total = 0
    /\ listLoading = TRUE
    /\ listError = ""
    /\ page = 0
    /\ rowsPerPage = DefaultRowsPerPage
    /\ filters = NoFilters
    /\ openDialog = FALSE
    /\ editing = 0
    /\ expending = 0
    /\ loads = <<>>
    /\ muts = <<>>
    /\ refsPending = {}
    /\ refsLoaded = {}

\* The five screens over the collection the server holds at first
ListInit == ListInitOver(Screens, {InitialLength}, {0})
ListNext == Startup(Principals) \/ ReadStep \/ DialogStep \/ MutationStep
ListSpec == ListInit /\ [][ListNext]_vars

\* The screens over collections of every length up to MaxRows, read only
ViewInit == ListInitOver(Screens, 0..MaxRows, 0..2)
ViewNext == Startup(Principals) \/ ReadStep \/ ViewStep \/ DialogStep
ViewSpec == ViewInit /\ [][ViewNext]_vars

\* The screens of an administrator, the session ending by logout at any time
SessionInit == ListInitOver(Screens, {InitialLength}, {0})
SessionNext ==
    \/ Startup({"admin"})
    \/ logout
    \/ ReadStep
    \/ DialogStep
    \/ MutationStep
SessionSpec == SessionInit /\ [][SessionNext]_vars

\* The screens with their reference fetches, the user leaving and re-entering
\* the route, every request failing or succeeding; no mutations
ScreenInit == ListInitOver(Screens, {InitialLength}, {0})
ScreenNext ==
    \/ Startup(Principals)
    \/ ReadStep
    \/ RefStep
    \/ unmountScreen
    \/ \E i \in 1..MaxInFlight, resp \in ListFailures : loadRejected(i, resp)
    \/ dismissError
ScreenSpec == ScreenInit /\ [][ScreenNext]_vars

\* The initial load of the Shared Reference Cache after the startup session
\* check, on a route that shows no list and calls no refreshX()
CacheInit == InitOver({"tA"})
CacheNext ==
    \/ Startup({"u1"})
    \/ initializeData
    \/ \E i \in 1..MaxRuns, kind \in Kinds, rows \in ServerRows :
          fetchResolved(i, kind, rows)
    \/ \E i \in 1..MaxRuns, kind \in Kinds, resp \in FetchFailures :
          fetchRejected(i, kind, resp)
CacheSpec == CacheInit /\ [][CacheNext]_vars

\* Every kind of request and its failure: an administrator on a list screen
\* (loads, mutations, reference fetches that fail), or the program on a route
\* with no list (the Shared Reference Cache; login attempts that fail, made
\* from the login form ProtectedRoute redirects to)
RetryInit ==
    \/ ListInitOver(Screens, {InitialLength}, {0})
    \/ InitOver({"tA"}) /\ lsToken = "tA" /\ lsRefreshToken = "tA"
RetryNext ==
    \/ Startup({"admin"})
    \/ mountScreen
    \/ \E i \in 1..MaxInFlight : loadResolved(i)
    \/ \E i \in 1..MaxInFlight, resp \in ListFailures : loadRejected(i, resp)
    \/ \E id \in Targets, confirmed \in BOOLEAN : handleDelete(id, confirmed)
    \/ \E op \in {"approve", "reject"}, id \in Targets : handleApprove(op, id)
    \/ \E i \in 1..MaxInFlight : mutationResolved(i)
    \/ \E i \in 1..MaxInFlight : mutationRejected(i, NoResponse)
    \/ \E kind \in ReferenceKinds, resp \in ListFailures :
          referenceRejected(kind, resp)
    \/ screen = "none" /\ DataStep
    \/ screen = "none" /\ ProtectedRoute = "login" /\ loginCall
    \/ screen = "none" /\ \E resp \in FailedResponses : loginRejected(resp)
RetrySpec == RetryInit /\ [][RetryNext]_vars

----------------------------------------------------------------------------
(* Session Store properties *)

SessionCleared ==
    /\ lsToken = None
    /\ lsRefreshToken = None
    /\ authHeader = None
    /\ user = null

\* C1: in every reachable state, if no access token is persisted under
\* 'token', the principal is null.
C1_NoTokenNoPrincipal == lsToken = None => user = null

\* C2: a login whose POST /auth/login succeeded has stored the returned token
\* under 'token' and the returned refresh token under 'refreshToken', set the
\* default header to Bearer of that same token and set the principal to the
\* returned user by the time it resolves.
C2_LoginStoresSession ==
    ev.op = "loginOk" =>
        /\ ev.result = "resolved"
        /\ lsToken = ev.tok
        /\ lsRefreshToken = ev.rt
        /\ authHeader = Bearer(ev.tok)
        /\ user = ev.usr

\* A login has just succeeded with a token and a refresh token that differ
\* from each other, replacing a session that held other values.
C2_Witness ==
    /\ ev.op = "loginOk"
    /\ ev.tok = "tB"
    /\ ev.rt = "tA"
    /\ user = "u2"
    /\ checkAuthPc = "done"

\* C3: a login whose request fails rejects with the server-supplied error
\* string when the response carries a (non-empty) one and with 'Login failed'
\* otherwise, and leaves the principal, both persisted tokens and the default
\* header as they were; from the unauthenticated state the principal stays null.
C3_LoginFailureLeavesSession ==
    /\ [](ev.op = "loginFail" =>
            /\ ev.result = "rejected"
            /\ ev.message =
                  IF ev.given.hasResponse /\ ev.given.error \notin {None, ""}
                  THEN ev.given.error
                  ELSE "Login failed")
    /\ [][ev'.op = "loginFail" =>
            /\ user' = user
            /\ lsToken' = lsToken
            /\ lsRefreshToken' = lsRefreshToken
            /\ authHeader' = authHeader
            /\ (user = null => user' = null)]_vars

\* A login has just been rejected with the server's message while nobody is
\* logged in.
C3_Witness ==
    /\ ev.op = "loginFail"
    /\ ev.message = "Invalid credentials"
    /\ user = null
    /\ lsToken = None

\* C4: logout(), called in any state, removes both persisted tokens, deletes
\* the default header and sets the principal to null in one step, issues no
\* network request, and never fails.
C4_LogoutClearsSession ==
    /\ [](checkAuthPc # "start" => ENABLED logout)
    /\ [](ev.op = "logout" => SessionCleared /\ ev.result = "returned")
    /\ [][ev'.op = "logout" =>
            /\ loginReqs' = loginReqs
            /\ refreshReqs' = refreshReqs
            /\ runs' = runs
            /\ checkAuthPc' = checkAuthPc]_vars

\* logout() has just run on a session that held both tokens, with a login
\* request in flight.
C4_Witness ==
    /\ ev.op = "logout"
    /\ ev.tok # None
    /\ ev.rt # None
    /\ loginReqs > 0
    /\ SessionCleared

C6_LoadingUntilSessionChecked ==
    /\ [](loading <=> checkAuthPc # "done")
    /\ [][~loading => ~loading']_vars
    /\ [](ev.op = "checkAuthOk" => (user = ev.usr /\ ~loading))
    /\ [](ev.op = "checkAuthFail" => ~loading)
    /\ [](ev.op = "mount" => (loading <=> lsToken # None))
    /\ <>(~loading)

\* The session check has resolved and a later login has succeeded with
\* loading still false.
C6_Witness ==
    /\ ~loading
    /\ checkAuthPc = "done"
    /\ ev.op = "loginOk"
    /\ loggedOut = FALSE
    /\ refreshReqs > 0

\* C7: a refreshToken() that fails, for want of a persisted refresh token or
\* because POST /auth/refresh fails, leaves the session in the state logout()
\* produces and rejects; one that succeeds changes only the access token and
\* the default header.
C7_RefreshFailureIsLogout ==
    /\ [](ev.op \in {"refreshNoToken", "refreshFail"} =>
            SessionCleared /\ ev.result = "rejected" /\ loggedOut)
    /\ [][ev'.op = "refreshOk" =>
            /\ ev'.result = "resolved"
            /\ lsToken' = ev'.tok
            /\ authHeader' = Bearer(ev'.tok)
            /\ lsRefreshToken' = lsRefreshToken
            /\ user' = user
            /\ loading' = loading]_vars

\* POST /auth/refresh has just failed for a logged-in session.
C7_Witness ==
    /\ ev.op = "refreshFail"
    /\ ev.tok # None
    /\ ev.rt # None
    /\ SessionCleared
    /\ effectDue

\* C8: every step that removes 'token' from storage also removes
\* 'refreshToken' in the same step, and no step removes 'refreshToken' alone.
C8_TokensClearedTogether ==
    /\ [][(lsToken # None /\ lsToken' = None) => lsRefreshToken' = None]_vars
    /\ [][(lsRefreshToken # None /\ lsRefreshToken' = None) =>
             lsToken' = None]_vars

\* A step has just removed both tokens from a storage that held two
\* different ones.
C8_Witness ==
    /\ ev.op \in {"logout", "checkAuthFail"}
    /\ ev.tok # None
    /\ ev.rt # None
    /\ ev.tok # ev.rt
    /\ lsToken = None
    /\ lsRefreshToken = None

\* C9: from the moment logout() completes until the next login succeeds, the
\* default Authorization header is absent.
C9_NoHeaderAfterLogout == loggedOut => authHeader = None

----------------------------------------------------------------------------
(* Shared Reference Cache properties *)

\* C10: once the principal has become null through logout() and the cache has
\* reacted to it, the three collections are empty and stay empty until the
\* next login.
C10_CacheEmptyAfterLogout ==
    (loggedOut /\ user = null /\ ~effectDue) =>
        (bases = <<>> /\ assetTypes = <<>> /\ assets = <<>>)

----------------------------------------------------------------------------
(* Shared Reference Cache and route guard properties *)

\* C11: no reference fetch and no list request is issued while the startup
\* session check is unresolved or the principal is null, and a protected
\* screen is mounted only when auth loading is false and the principal is
\* non-null.
C11_FetchOnlyWhenAuthenticated ==
    [][ (\/ Len(runs') > Len(runs)
         \/ Len(loads') > Len(loads)
         \/ mounted' /\ ~mounted)
        => ~loading /\ user # null ]_vars

\* C12: the cache's loading flag becomes false only after the three fetches
\* initializeData started for the present principal have settled: the step in
\* which a group of initializeData settles and turns loading off leaves no
\* group that a later initializeData started unsettled.
C12_LoadingUntilAllSettled ==
    [][ \A i \in 1..Len(runs) :
            (/\ runs[i].initial
             /\ dataLoading /\ ~dataLoading'
             /\ \E kind \in Kinds :
                   \/ \E rows \in ServerRows : fetchResolved(i, kind, rows)
                   \/ \E resp \in FetchFailures : fetchRejected(i, kind, resp))
            => ~\E j \in (i + 1)..Len(runs) : runs[j].initial ]_vars

----------------------------------------------------------------------------
(* Permission Evaluator properties *)

\* The base references of a record: both ends of a transfer, the base of a
\* purchase
BaseReferences(s, r) ==
    IF s = "transfers" THEN {r.from_base_id, r.to_base_id} ELSE {r.base_id}

\* C13: for transfers and purchases canEdit and canDelete equal the truth
\* table: admin may do both; a base_commander may edit a pending record and
\* delete a pending or rejected / cancelled one when the principal's base is a
\* base reference of the record; a logistics_officer and a null principal may
\* do neither.
C13_PermissionTable ==
    screen \in {"transfers", "purchases"} =>
        \A i \in DOMAIN records, u \in {user, null} :
            LET r == records[i]
                match == baseOf(u) \in BaseReferences(screen, r)
                closed == IF screen = "transfers" THEN "rejected" ELSE "cancelled"
            IN  /\ roleOf(u) = "admin" =>
                       canEdit(screen, u, r) /\ canDelete(screen, u, r)
                /\ roleOf(u) = "base_commander" =>
                       /\ canEdit(screen, u, r) <=> (r.status = "pending" /\ match)
                       /\ canDelete(screen, u, r) <=>
                              (r.status \in {"pending", closed} /\ match)
                /\ (roleOf(u) = "logistics_officer" \/ u = null) =>
                       ~canEdit(screen, u, r) /\ ~canDelete(screen, u, r)

\* A base commander of B1 sees an approved transfer out of B1 and may neither
\* edit nor delete it, next to a pending one it may edit
C13_Witness ==
    /\ screen = "transfers"
    /\ user = "cmdrB1"
    /\ \E i \in DOMAIN records :
          /\ records[i].status = "approved"
          /\ records[i].from_base_id = "B1"
          /\ ~canEdit(screen, user, records[i])
          /\ ~canDelete(screen, user, records[i])
    /\ \E i \in DOMAIN records : canEdit(screen, user, records[i])

\* C14: canApprove is true exactly of pending records, whatever the role,
\* and an approve or reject / cancel request is sent only by an admin for a
\* record whose status in the controller's collection is pending.
C14_ApproveOnlyPendingByAdmin ==
    /\ [](\A i \in DOMAIN records :
              canApprove(records[i]) <=> records[i].status = "pending")
    /\ [][ (/\ Len(muts') > Len(muts)
            /\ muts'[Len(muts')].op \in {"approve", "reject"})
           => /\ roleOf(user) = "admin"
              /\ \E i \in DOMAIN records :
                    /\ records[i].id = muts'[Len(muts')].id
                    /\ records[i].status = "pending" ]_vars

\* An approve or reject / cancel request is in flight
C14_Witness ==
    /\ screen \in {"transfers", "purchases"}
    /\ \E i \in DOMAIN muts : muts[i].op \in {"approve", "reject"}

\* C15: on the assignments list no edit or delete is started by a
\* logistics_officer, and a base_commander starts one only for an assignment
\* of the principal's own base.
C15_AssignmentActionsGated ==
    [][ (/\ screen = "assignments"
         /\ \E id \in Targets : handleOpenDialog(id) \/ handleDelete(id, TRUE))
        => /\ roleOf(user) # "logistics_officer"
           /\ roleOf(user) = "base_commander" =>
                  \A id \in Targets :
                      (handleOpenDialog(id) \/ handleDelete(id, TRUE)) =>
                          RowOf(id).base_id = baseOf(user) ]_vars

----------------------------------------------------------------------------
(* Record List Controller properties *)

\* C16: on every list screen, applying or clearing the filter bar sets the
\* page index to 0.
C16_FilterResetsPage ==
    [][ (\E b \in BaseChoices : handleFiltersChange(b)) => page' = 0 ]_vars

\* C17: a failed load sets a non-empty error (the server's message when it
\* carries one, else the fallback of the resource), leaves the collection and
\* the total as they were and sets loading to false.
C17_LoadFailureKeepsData ==
    [][ \A i \in 1..Len(loads), resp \in ListFailures :
            (loads[i].live /\ Live /\ loadRejected(i, resp)) =>
                /\ listError' # ""
                /\ listError' # None
                /\ listError' = IF resp.hasResponse /\ Truthy(resp.error)
                                THEN resp.error
                                ELSE "Failed to fetch " \o screen
                /\ records' = records
                /\ total' = total
                /\ listLoading' = FALSE ]_vars

\* A reload failed over a collection loaded before
C17_Witness ==
    /\ listError = "Failed to fetch " \o screen
    /\ records # <<>>
    /\ ~listLoading
    /\ loads = <<>>

\* The criteria the filter of screen s is checked under: empty, matching and
\* matching-nothing values of each criterion the filter callback reads
Criteria(s) ==
    CASE s = "assets" ->
           {[NoFilters EXCEPT !.name = n, !.base_id = b, !.status = st] :
               n \in {<<>>, <<"M">>, <<"e", "e">>, <<"x">>},
               b \in {"", "B1", "B2", "B9"},
               st \in {""} \cup {StatusesOf(s)[i] : i \in 1..3}}
      [] s = "purchases" ->
           {[NoFilters EXCEPT !.base_id = b, !.start_date = d1, !.end_date = d2,
                              !.status = st] :
               b \in {"", "B1", "B9"},
               d1 \in {0, 20240103, 20240199},
               d2 \in {0, 20240101, 20240105},
               st \in {""} \cup {StatusesOf(s)[i] : i \in 1..3}}
      [] OTHER ->
           {[NoFilters EXCEPT !.base_id = b, !.status = st, !.asset_id = a,
                              !.personnel_id = p] :
               b \in {"", "B1", "B9"},
               st \in {""} \cup {StatusesOf(s)[i] : i \in 1..3},
               a \in {"", "a1", "a2"},
               p \in {"", "p1", "p2"}}

\* a is b with some elements left out, the others in b's order
RECURSIVE IsSubsequence(_, _)
IsSubsequence(a, b) ==
    IF a = <<>> THEN TRUE
    ELSE IF b = <<>> THEN FALSE
    ELSE IF Head(a) = Head(b) THEN IsSubsequence(Tail(a), Tail(b))
    ELSE IsSubsequence(a, Tail(b))

\* C18: on the client-filtered lists, filtering with every criterion empty
\* returns the collection unchanged, and under any criteria the filtered view
\* is a subsequence of the collection in the collection's order.
C18_FilterIdentityAndOrder ==
    screen \in ClientPaged =>
        /\ Filtered(screen, records, NoFilters) = records
        /\ \A f \in Criteria(screen) \cup {filters} :
              LET view == Filtered(screen, records, f)
              IN  IsSubsequence(view, records)

\* The filter bar applied base B1 and the view shows some records of the
\* collection and not others
C18_Witness ==
    /\ screen \in ClientPaged
    /\ filters.base_id = "B1"
    /\ LET view == Filtered(screen, records, filters)
       IN  /\ 0 < Len(view)
           /\ Len(view) < Len(records)
           /\ TableRows = Paginated(view, page, rowsPerPage)

\* The concatenation of pages 0..k-1 of a view under page size `size`
RECURSIVE PagesUpTo(_, _, _)
PagesUpTo(view, k, size) ==
    IF k = 0 THEN <<>>
    ELSE PagesUpTo(view, k - 1, size) \o Paginated(view, k - 1, size)
RECURSIVE LengthsUpTo(_, _, _)
LengthsUpTo(view, k, size) ==
    IF k = 0 THEN 0
    ELSE LengthsUpTo(view, k - 1, size) + Len(Paginated(view, k - 1, size))

\* ceil(n / size)
NumPages(n, size) == (n + size - 1) \div size

\* C19: on the client-paginated lists, page p of size s is the elements at
\* positions [p*s, p*s+s) of the filtered view; the pages 0..ceil(n/s)-1 are
\* pairwise disjoint, concatenate to the view, and their lengths sum to n.
C19_PagesPartitionView ==
    screen \in ClientPaged =>
        LET view == Filtered(screen, records, filters)
            n == Len(view)
        IN  \A size \in RowsPerPageOptions(screen) :
                LET last == NumPages(n, size) - 1
                    ids(p) == {Paginated(view, p, size)[k].id :
                                  k \in DOMAIN Paginated(view, p, size)}
                IN  /\ \A p \in 0..last :
                          LET pg == Paginated(view, p, size)
                          IN  /\ Len(pg) = (IF p * size + size <= n
                                            THEN size ELSE n - p * size)
                              /\ \A k \in DOMAIN pg : pg[k] = view[p * size + k]
                    /\ \A p, q \in 0..last : p # q => ids(p) \cap ids(q) = {}
                    /\ PagesUpTo(view, last + 1, size) = view
                    /\ LengthsUpTo(view, last + 1, size) = n

\* The second of three pages is shown
C19_Witness ==
    /\ screen \in ClientPaged
    /\ page = 1
    /\ rowsPerPage = 5
    /\ LET view == Filtered(screen, records, filters)
       IN  /\ Len(view) > 10
           /\ TableRows = SubSeq(view, 6, 10)

\* C20: a mutation that succeeded issues a reload of the collection and does
\* not patch the in-memory collection; a mutation that failed issues no load
\* and leaves the in-memory collection unchanged; the reload that follows a
\* successful approve of a transfer shows that transfer approved.
C20_MutationThenReload ==
    /\ [][ \A i \in 1..Len(muts) :
               mutationResolved(i) =>
                   /\ records' = records
                   /\ Len(loads') = Len(loads) + 1
                   /\ loads'[Len(loads')].op = muts[i].op
                   /\ loads'[Len(loads')].live ]_vars
    /\ [][ \A i \in 1..Len(muts), resp \in ListFailures :
               mutationRejected(i, resp) =>
                   records' = records /\ loads' = loads ]_vars
    /\ [][ \A i \in 1..Len(loads) :
               (/\ screen = "transfers"
                /\ loads[i].op = "approve"
                /\ loadResolved(i))
               => \A k \in DOMAIN records' :
                      records'[k].id = loads[i].id =>
                          records'[k].status = "approved" ]_vars

\* The transfer that was pending at first is shown approved after the reload
C20_Witness ==
    /\ screen = "transfers"
    /\ loads = <<>>
    /\ muts = <<>>
    /\ ~listLoading
    /\ \E k \in DOMAIN records :
          /\ records[k].id \in Targets
          /\ RowAt(screen, records[k].id).status = "pending"
          /\ records[k].status = "approved"

\* C21: a delete request is sent only by the step in which the user accepted
\* the confirmation prompt for that record, and an expend request only by the
\* step that submits the expend dialog of that assignment with a non-blank
\* reason; declining the prompt and cancelling the dialog send nothing and
\* change neither the collection nor the error.
C21_DestructiveNeedsConfirmation ==
    /\ [][ (/\ Len(muts') > Len(muts)
            /\ muts'[Len(muts')].op = "delete")
           => \E id \in Targets :
                  handleDelete(id, TRUE) /\ muts'[Len(muts')].id = id ]_vars
    /\ [][ (/\ Len(muts') > Len(muts)
            /\ muts'[Len(muts')].op = "expend")
           => /\ expending # 0
              /\ muts'[Len(muts')].id = expending
              /\ \E reason \in Reasons :
                    trim(reason) # <<>> /\ handleExpendSubmit(reason) ]_vars
    /\ [][ ((\E id \in Targets : handleDelete(id, FALSE)) \/ handleExpendCancel)
           => /\ muts' = muts
              /\ loads' = loads
              /\ db' = db
              /\ records' = records
              /\ listError' = listError ]_vars
    /\ [][ \A reason \in Reasons :
               (trim(reason) = <<>> /\ handleExpendSubmit(reason))
                   => muts' = muts /\ records' = records ]_vars

\* The expend dialog of an assignment was submitted with a reason and its
\* request is in flight
C21_Witness ==
    /\ screen = "assignments"
    /\ expending # 0
    /\ \E i \in DOMAIN muts : muts[i].op = "expend" /\ muts[i].id = expending

\* C22: every failure of a request of a screen - a list load, a reference
\* fetch - is turned into an error string the screen displays: after the step
\* that handles the failure on a mounted screen the error is non-empty.
C22_EveryFailureDisplayed ==
    [][ (/\ Live
         /\ \/ \E i \in 1..Len(loads), resp \in ListFailures :
                  loads[i].live /\ loadRejected(i, resp)
            \/ \E kind \in ReferenceKinds, resp \in ListFailures :
                  referenceRejected(kind, resp))
        => listError' # "" ]_vars

\* The requests in flight: the fetches of the cache, and all requests
RECURSIVE CacheFetches(_)
CacheFetches(rs) ==
    IF rs = <<>> THEN 0 ELSE Cardinality(Head(rs).pending) + CacheFetches(Tail(rs))
Requests ==
    Len(loads) + Len(muts) + Cardinality(refsPending) + CacheFetches(runs)
        + loginReqs + refreshReqs

\* C23: the step that handles a failed request - a list load, a mutation, a
\* reference fetch of a screen or of the cache, a login, answered with 401 or
\* otherwise - sends no request: the failed request is gone, no request of any
\* kind is added and refreshToken() is not called.
C23_NoAutomaticRetry ==
    [][ (\/ \E i \in 1..Len(loads), resp \in ListFailures : loadRejected(i, resp)
         \/ \E i \in 1..Len(muts), resp \in ListFailures : mutationRejected(i, resp)
         \/ \E kind \in ReferenceKinds, resp \in ListFailures :
               referenceRejected(kind, resp)
         \/ \E i \in 1..Len(runs), kind \in Kinds, resp \in FetchFailures :
               fetchRejected(i, kind, resp)
         \/ \E resp \in FailedResponses : loginRejected(resp))
        => /\ Requests' = Requests - 1
           /\ Len(loads') <= Len(loads)
           /\ Len(muts') <= Len(muts)
           /\ refsPending' \subseteq refsPending
           /\ CacheFetches(runs') <= CacheFetches(runs)
           /\ loginReqs' <= loginReqs
           /\ refreshReqs' = refreshReqs ]_vars

\* A reload answered with 401 has failed and nothing is in flight
C23_Witness ==
    /\ listError = "Unauthorized"
    /\ records # <<>>
    /\ Requests = 0

C25_OneLoginInFlight == loginReqs <= 1

\* C26: started on a storage that holds both tokens or neither, the storage
\* never holds exactly one of 'token' and 'refreshToken'.
C26_TokensPaired == (lsToken = None) <=> (lsRefreshToken = None)

\* C27: on a server-paged list, once every list request in flight has
\* settled, the rows and the total displayed are the answer to the request
\* issued last, the one for the page, page size and filter now selected.
C27_LatestRequestWins ==
    (screen \in ServerPaged /\ Live /\ loads = <<>> /\ muts = <<>>
        /\ listError = "")
    => LET resp == ServerList(screen,
                       Query(page, rowsPerPage, filters, TRUE, "effect", 0), db)
       IN  records = resp.data /\ total = resp.total

\* C28: submitting the transfer dialog sends PUT /transfers/:id when the
\* dialog was opened from the Edit action of a row, and POST /transfers only
\* when it was opened by Create Transfer.
C28_EditIssuesUpdate ==
    [][ (/\ screen = "transfers"
         /\ handleSubmit(TRUE)
         /\ Len(muts') = Len(muts) + 1)
        => LET sent == muts'[Len(muts')]
           IN  IF editing # 0
               THEN sent.op = "update" /\ sent.id = editing
               ELSE sent.op = "create" ]_vars

\* C29: on a client-paged list the page index is valid whenever the filtered
\* view is non-empty: page * rowsPerPage is less than the length of the view.
C29_PageIndexValid ==
    (screen \in ClientPaged /\ Live
        /\ Filtered(screen, records, filters) # <<>>)
    => page * rowsPerPage < Len(Filtered(screen, records, filters))

\* C30: during the initial load of the cache the success of one fetch never
\* clears the error of another: a step in which a fetch succeeds while an
\* error is recorded leaves an error recorded, so that the error is non-null
\* after the load if and only if one of the three fetches failed.
C30_SuccessKeepsSiblingError ==
    [][ (/\ \E i \in 1..Len(runs), kind \in Kinds, rows \in ServerRows :
               runs[i].initial /\ fetchResolved(i, kind, rows)
         /\ dataError # null)
        => dataError' # null ]_vars

====
